---- MODULE Spec2Model ----
(***************************************************************************)
(* Premier League sentiment tracker: the team attribution filter of        *)
(* data_sources.py and the per-club aggregation, entity filtering and      *)
(* snapshot writing of main.py, as state machines.                         *)
(*                                                                         *)
(* Text is a sequence of one-character strings, so that lower(), split()   *)
(* and the `in` substring test are computed and not assumed.               *)
(* Sentiment scores and averages are integers in thousandths (0.2 is 200); *)
(* entity salience is an integer in ten-thousandths (0.02 is 200).         *)
(***************************************************************************)
EXTENDS Integers, Sequences, FiniteSets, TLC

VARIABLES
  pc,               \* position of the program
  filter_posts,     \* filter_posts_by_team: argument posts
  team_variations,  \* filter_posts_by_team: argument team_variations
  relevant_posts,   \* filter_posts_by_team: returned list
  team_name,        \* generate_team_summary: argument team_name
  response,         \* generate_team_summary: entities of the extractor's response
  entities,         \* generate_team_summary: returned list
  feeds,            \* what the three RSS sources hold during the run
  teams_to_process, \* sentiment_tracker: the clubs of the run (roster indices)
  team_idx,         \* sentiment_tracker: position of the for loop in teams_to_process
  posts,            \* sentiment_tracker: posts
  sentiments,       \* sentiment_tracker: sentiments
  sources_used,     \* sentiment_tracker: sources_used
  db,               \* the team_sentiment collection, in order of insertion
  results,          \* sentiment_tracker: results
  returned,         \* what sentiment_tracker returned
  clock,            \* seconds since the run started
  failed_calls,     \* history: indices of the posts whose analyze_sentiment call raised
  nlp_calls,        \* history: calls made to the NLP service for the current club
  raised,           \* history: the steps of the current club at which an exception was raised
  visited,          \* history: one entry per club iteration that has ended
  google_posts,     \* fetch_combined_news: google_posts
  bbc_posts,        \* fetch_combined_news: bbc_posts
  sky_posts,        \* fetch_combined_news: sky_posts
  fetch_ok,         \* fetch_combined_news alone: the fetchers that do not raise
  runs_left,        \* the invocations the scheduler still makes after this one
  db_before,        \* history: the collection when the current invocation started
  now,              \* backfill: the time of the run (UTC), hour and minute of the day
  base_avg,         \* backfill: the average computed for the current club
  hour_idx          \* backfill: the hour of the day of the next hourly copy

filterVars == << filter_posts, relevant_posts >>
summaryVars == << response, entities >>
clubVars == << team_name, team_variations >>
fetchVars == << google_posts, bbc_posts, sky_posts, fetch_ok >>
invocationVars == << runs_left, db_before >>
runVars == << feeds, teams_to_process, team_idx, posts, sentiments, sources_used,
              db, results, returned, clock, failed_calls, nlp_calls, raised,
              visited, fetchVars, invocationVars >>
backfillVars == << now, base_avg, hour_idx >>

vars == << pc, filterVars, summaryVars, clubVars, runVars, backfillVars >>

(***************************************************************************)
(* Bounds of the model.                                                    *)
(***************************************************************************)
MaxTextLen == 3
MaxVariationLen == 2
MaxPosts == 2
MaxVariations == 2
MaxEntities == 3
MaxTail == 4
MaxPad == 11
NumTeams == 2
MaxRichFeed == 3
MaxGoogle == 8
MaxFailures == 1
MaxShorts == 1
MaxHour == 3
MaxRuns == 2

(***************************************************************************)
(* Characters and strings.                                                 *)
(***************************************************************************)
UpperChars ==
  << "A","B","C","D","E","F","G","H","I","J","K","L","M",
     "N","O","P","Q","R","S","T","U","V","W","X","Y","Z" >>

LowerChars ==
  << "a","b","c","d","e","f","g","h","i","j","k","l","m",
     "n","o","p","q","r","s","t","u","v","w","x","y","z" >>

\* str.lower() on one character
LowerOf ==
  [c \in {UpperChars[i] : i \in 1..Len(UpperChars)} |->
     LowerChars[CHOOSE i \in 1..Len(UpperChars) : UpperChars[i] = c]]

LowerChar(c) == IF c \in DOMAIN LowerOf THEN LowerOf[c] ELSE c

\* str.lower()
Lower(s) == [i \in 1..Len(s) |-> LowerChar(s[i])]

\* the characters str.split() separates on
IsSpace(c) == c \in {" ", "\t", "\n", "\r"}

\* `needle in hay` on strings
Contains(needle, hay) ==
  \E i \in 0..(Len(hay) - Len(needle)) :
    SubSeq(hay, i + 1, i + Len(needle)) = needle

\* str.split(): the maximal runs of non-whitespace characters, in order
RECURSIVE SplitFrom(_, _, _, _)
SplitFrom(s, i, word, words) ==
  IF i > Len(s)
  THEN IF word = << >> THEN words ELSE Append(words, word)
  ELSE IF IsSpace(s[i])
       THEN SplitFrom(s, i + 1, << >>,
                      IF word = << >> THEN words ELSE Append(words, word))
       ELSE SplitFrom(s, i + 1, Append(word, s[i]), words)

Split(s) == SplitFrom(s, 1, << >>, << >>)

(***************************************************************************)
(* Static configuration and the texts the feeds and the extractor deliver. *)
(***************************************************************************)
PREMIER_LEAGUE_TEAMS ==
  << [name |-> <<"M","a","n","c","h","e","s","t","e","r"," ","C","i","t","y">>,
      variations |-> << <<"M","a","n","c","h","e","s","t","e","r"," ","C","i","t","y">>,
                      <<"M","a","n"," ","C","i","t","y">>,
                      <<"M","C","F","C">>,
                      <<"C","i","t","y">> >>],
     [name |-> <<"A","r","s","e","n","a","l">>,
      variations |-> << <<"A","r","s","e","n","a","l">>,
                      <<"G","u","n","n","e","r","s">>,
                      <<"A","F","C">> >>],
     [name |-> <<"L","i","v","e","r","p","o","o","l">>,
      variations |-> << <<"L","i","v","e","r","p","o","o","l">>,
                      <<"L","F","C">>,
                      <<"R","e","d","s">> >>],
     [name |-> <<"M","a","n","c","h","e","s","t","e","r"," ","U","n","i","t","e","d">>,
      variations |-> << <<"M","a","n","c","h","e","s","t","e","r"," ","U","n","i","t","e","d">>,
                      <<"M","a","n"," ","U","n","i","t","e","d">>,
                      <<"M","a","n"," ","U","t","d">>,
                      <<"M","U","F","C">>,
                      <<"U","n","i","t","e","d">> >>],
     [name |-> <<"C","h","e","l","s","e","a">>,
      variations |-> << <<"C","h","e","l","s","e","a">>,
                      <<"C","F","C">>,
                      <<"B","l","u","e","s">> >>],
     [name |-> <<"T","o","t","t","e","n","h","a","m">>,
      variations |-> << <<"T","o","t","t","e","n","h","a","m">>,
                      <<"S","p","u","r","s">>,
                      <<"T","H","F","C">> >>],
     [name |-> <<"N","e","w","c","a","s","t","l","e">>,
      variations |-> << <<"N","e","w","c","a","s","t","l","e">>,
                      <<"N","e","w","c","a","s","t","l","e"," ","U","n","i","t","e","d">>,
                      <<"N","U","F","C">> >>],
     [name |-> <<"B","r","i","g","h","t","o","n">>,
      variations |-> << <<"B","r","i","g","h","t","o","n">>,
                      <<"B","r","i","g","h","t","o","n"," ","&"," ","H","o","v","e"," ","A","l","b","i","o","n">>,
                      <<"S","e","a","g","u","l","l","s">> >>],
     [name |-> <<"A","s","t","o","n"," ","V","i","l","l","a">>,
      variations |-> << <<"A","s","t","o","n"," ","V","i","l","l","a">>,
                      <<"V","i","l","l","a">>,
                      <<"A","V","F","C">> >>],
     [name |-> <<"W","e","s","t"," ","H","a","m">>,
      variations |-> << <<"W","e","s","t"," ","H","a","m">>,
                      <<"W","e","s","t"," ","H","a","m"," ","U","n","i","t","e","d">>,
                      <<"H","a","m","m","e","r","s">> >>],
     [name |-> <<"F","u","l","h","a","m">>,
      variations |-> << <<"F","u","l","h","a","m">>,
                      <<"F","F","C">> >>],
     [name |-> <<"B","r","e","n","t","f","o","r","d">>,
      variations |-> << <<"B","r","e","n","t","f","o","r","d">>,
                      <<"B","e","e","s">> >>],
     [name |-> <<"C","r","y","s","t","a","l"," ","P","a","l","a","c","e">>,
      variations |-> << <<"C","r","y","s","t","a","l"," ","P","a","l","a","c","e">>,
                      <<"P","a","l","a","c","e">>,
                      <<"C","P","F","C">>,
                      <<"E","a","g","l","e","s">> >>],
     [name |-> <<"N","o","t","t","i","n","g","h","a","m"," ","F","o","r","e","s","t">>,
      variations |-> << <<"N","o","t","t","i","n","g","h","a","m"," ","F","o","r","e","s","t">>,
                      <<"F","o","r","e","s","t">>,
                      <<"N","F","F","C">> >>],
     [name |-> <<"E","v","e","r","t","o","n">>,
      variations |-> << <<"E","v","e","r","t","o","n">>,
                      <<"E","F","C">>,
                      <<"T","o","f","f","e","e","s">> >>],
     [name |-> <<"B","o","u","r","n","e","m","o","u","t","h">>,
      variations |-> << <<"B","o","u","r","n","e","m","o","u","t","h">>,
                      <<"A","F","C"," ","B","o","u","r","n","e","m","o","u","t","h">>,
                      <<"C","h","e","r","r","i","e","s">> >>],
     [name |-> <<"W","o","l","v","e","s">>,
      variations |-> << <<"W","o","l","v","e","s">>,
                      <<"W","o","l","v","e","r","h","a","m","p","t","o","n">>,
                      <<"W","a","n","d","e","r","e","r","s">> >>],
     [name |-> <<"L","e","i","c","e","s","t","e","r">>,
      variations |-> << <<"L","e","i","c","e","s","t","e","r">>,
                      <<"L","e","i","c","e","s","t","e","r"," ","C","i","t","y">>,
                      <<"L","C","F","C">>,
                      <<"F","o","x","e","s">> >>],
     [name |-> <<"I","p","s","w","i","c","h">>,
      variations |-> << <<"I","p","s","w","i","c","h">>,
                      <<"I","p","s","w","i","c","h"," ","T","o","w","n">>,
                      <<"I","T","F","C">>,
                      <<"T","r","a","c","t","o","r"," ","B","o","y","s">> >>],
     [name |-> <<"S","o","u","t","h","a","m","p","t","o","n">>,
      variations |-> << <<"S","o","u","t","h","a","m","p","t","o","n">>,
                      <<"S","a","i","n","t","s">> >>] >>

FixedGenericTerms ==
  { <<"p","r","e","m","i","e","r"," ","l","e","a","g","u","e">>,
    <<"e","p","l">>,
    <<"f","o","o","t","b","a","l","l">>,
    <<"s","o","c","c","e","r">>,
    <<"m","a","t","c","h">>,
    <<"g","a","m","e">>,
    <<"t","e","a","m">>,
    <<"c","l","u","b">>,
    <<"p","l","a","y","e","r">>,
    <<"m","a","n","a","g","e","r">>,
    <<"c","o","a","c","h">>,
    <<"m","a","n","c","h","e","s","t","e","r"," ","c","i","t","y">>,
    <<"a","r","s","e","n","a","l">>,
    <<"l","i","v","e","r","p","o","o","l">>,
    <<"c","h","e","l","s","e","a">>,
    <<"m","a","n","c","h","e","s","t","e","r"," ","u","n","i","t","e","d">>,
    <<"t","o","t","t","e","n","h","a","m">>,
    <<"n","e","w","c","a","s","t","l","e">>,
    <<"b","r","i","g","h","t","o","n">>,
    <<"a","s","t","o","n"," ","v","i","l","l","a">>,
    <<"w","e","s","t"," ","h","a","m">>,
    <<"m","a","n"," ","c","i","t","y">>,
    <<"m","a","n"," ","u","n","i","t","e","d">>,
    <<"m","a","n"," ","u","t","d">>,
    <<"s","p","u","r","s">> }

\* "Superb win sends fans home delighted" (36 characters)
TextSuperbWin ==
  <<"S","u","p","e","r","b"," ","w","i","n"," ","s","e","n","d","s"," ","f","a","n","s"," ","h","o","m","e"," ","d","e","l","i","g","h","t","e","d">>

\* "Manager pleased with a solid away point" (39 characters)
TextSolidPoint ==
  <<"M","a","n","a","g","e","r"," ","p","l","e","a","s","e","d"," ","w","i","t","h"," ","a"," ","s","o","l","i","d"," ","a","w","a","y"," ","p","o","i","n","t">>

\* "Injury worry for captain before the derby" (41 characters)
TextInjuryWorry ==
  <<"I","n","j","u","r","y"," ","w","o","r","r","y"," ","f","o","r"," ","c","a","p","t","a","i","n"," ","b","e","f","o","r","e"," ","t","h","e"," ","d","e","r","b","y">>

\* "Brilliant hat-trick seals a famous victory" (42 characters)
TextHatTrick ==
  <<"B","r","i","l","l","i","a","n","t"," ","h","a","t","-","t","r","i","c","k"," ","s","e","a","l","s"," ","a"," ","f","a","m","o","u","s"," ","v","i","c","t","o","r","y">>

\* "Club confirms the squad for Saturday" (36 characters)
TextSquadNews ==
  <<"C","l","u","b"," ","c","o","n","f","i","r","m","s"," ","t","h","e"," ","s","q","u","a","d"," ","f","o","r"," ","S","a","t","u","r","d","a","y">>

\* "Full time" (9 characters)
TextFullTime ==
  <<"F","u","l","l"," ","t","i","m","e">>

\* "Electricity fault delays Anfield kick-off" (41 characters)
TextElectricity ==
  <<"E","l","e","c","t","r","i","c","i","t","y"," ","f","a","u","l","t"," ","d","e","l","a","y","s"," ","A","n","f","i","e","l","d"," ","k","i","c","k","-","o","f","f">>

\* "Man City held to a goalless draw" (32 characters)
TextCityDraw ==
  <<"M","a","n"," ","C","i","t","y"," ","h","e","l","d"," ","t","o"," ","a"," ","g","o","a","l","l","e","s","s"," ","d","r","a","w">>

\* "Transfer window: all the done deals" (35 characters)
TextTransfers ==
  <<"T","r","a","n","s","f","e","r"," ","w","i","n","d","o","w",":"," ","a","l","l"," ","t","h","e"," ","d","o","n","e"," ","d","e","a","l","s">>

\* "Reds rally late to stun the Gunners" (35 characters)
TextRedsRally ==
  <<"R","e","d","s"," ","r","a","l","l","y"," ","l","a","t","e"," ","t","o"," ","s","t","u","n"," ","t","h","e"," ","G","u","n","n","e","r","s">>

NameSalah == <<"S","a","l","a","h">>

NameAnfield == <<"A","n","f","i","e","l","d">>

NameEverton == <<"E","v","e","r","t","o","n">>

NameArsenalUpper == <<"A","R","S","E","N","A","L">>

NameVAR == <<"V","A","R">>

NameKlopp == <<"K","l","o","p","p">>

NamePremierLeague == <<"P","r","e","m","i","e","r"," ","L","e","a","g","u","e">>

NameReds == <<"R","e","d","s">>

(***************************************************************************)
(* data_sources.py: filter_posts_by_team                                   *)
(***************************************************************************)
\* A mutation of WordLoop: the variation is accepted as soon as it occurs in
\* the whole lowercased text, with no per-word check.
RECURSIVE WordLoopRawText(_, _, _)
WordLoopRawText(variation_lower, words, k) == TRUE

\* for word in words: if variation_lower in word: found = True; break
RECURSIVE WordLoop(_, _, _)
WordLoop(variation_lower, words, k) ==
  IF k > Len(words) THEN FALSE
  ELSE IF Contains(variation_lower, words[k]) THEN TRUE
       ELSE WordLoop(variation_lower, words, k + 1)

\* for variation in team_variations: ... if found: break
RECURSIVE VariationLoop(_, _, _)
VariationLoop(text_lower, variations, k) ==
  IF k > Len(variations) THEN FALSE
  ELSE LET variation_lower == Lower(variations[k])
           found == /\ Contains(variation_lower, text_lower)
                    /\ WordLoop(variation_lower, Split(text_lower), 1)
       IN  IF found THEN TRUE
           ELSE VariationLoop(text_lower, variations, k + 1)

\* for post in posts: ... if found: relevant_posts.append(post)
RECURSIVE PostLoop(_, _, _, _)
PostLoop(post_list, variations, k, relevant) ==
  IF k > Len(post_list) THEN relevant
  ELSE LET text_lower == Lower(post_list[k].text)
           found == VariationLoop(text_lower, variations, 1)
       IN  PostLoop(post_list, variations, k + 1,
                    IF found THEN Append(relevant, post_list[k]) ELSE relevant)

filter_posts_by_team(post_list, name, variations) ==
  PostLoop(post_list, variations, 1, << >>)

(***************************************************************************)
(* The attribution filter as a function of its arguments: every short text *)
(* against every short variation, and lists of posts against lists of      *)
(* variations.                                                             *)
(***************************************************************************)
\* The variables of sentiment_tracker while it is not running.
RunIdle ==
  /\ feeds = [google |-> << >>, bbc |-> << >>, sky |-> << >>]
  /\ teams_to_process = << >>
  /\ team_idx = 0
  /\ posts = << >>
  /\ sentiments = << >>
  /\ sources_used = {}
  /\ db = << >>
  /\ results = << >>
  /\ returned = << >>
  /\ clock = 0
  /\ failed_calls = {}
  /\ nlp_calls = [sentiment |-> 0, entities |-> 0]
  /\ raised = {}
  /\ visited = << >>
  /\ google_posts = << >>
  /\ bbc_posts = << >>
  /\ sky_posts = << >>
  /\ fetch_ok = [s \in {"google", "bbc", "sky"} |-> TRUE]
  /\ runs_left = 0
  /\ db_before = << >>

\* The variables of the backfill while it is not running.
BackfillIdle ==
  /\ now = [hour |-> 0, minute |-> 0]
  /\ base_avg = 0
  /\ hour_idx = 0

FilterChars == {"A", "a", "b", " "}

Strings(chars, n) == UNION {[1..k -> chars] : k \in 0..n}

Lists(pool, n) == UNION {[1..k -> pool] : k \in 0..n}

FilterTextPool == { <<"A", " ", "b">>, <<"a", "b">>, <<"b">>, << >> }

\* a club's name variations are never empty
FilterVariationPool == { <<"a">>, <<"A", "B">>, <<"a", " ", "b">>, <<"b", "a">> }

BbcPost(t) == [text |-> t, source |-> "BBC Sport"]

\* One post, any string of at most n characters, and one variation, any
\* string of 1 to m characters.
SingleFilterInputs(n, m) ==
  { << <<BbcPost(t)>>, <<v>> >> :
      t \in Strings(FilterChars, n),
      v \in Strings(FilterChars, m) \ {<< >>} }

\* At most p posts and at most v variations from the pools.
ListFilterInputs(p, v) ==
  { << [k \in DOMAIN ts |-> BbcPost(ts[k])], vs >> :
      ts \in Lists(FilterTextPool, p),
      vs \in Lists(FilterVariationPool, v) }

InitFilter ==
  /\ pc = "filter_call"
  /\ \E input \in SingleFilterInputs(MaxTextLen, MaxVariationLen)
                     \cup ListFilterInputs(MaxPosts, MaxVariations) :
       /\ filter_posts = input[1]
       /\ team_variations = input[2]
  /\ relevant_posts = << >>
  /\ team_name = << >>
  /\ response = << >>
  /\ entities = << >>
  /\ RunIdle
  /\ BackfillIdle

FilterPostsByTeam ==
  /\ pc = "filter_call"
  /\ relevant_posts' = filter_posts_by_team(filter_posts, << >>, team_variations)
  /\ pc' = "filter_return"
  /\ UNCHANGED << filter_posts, summaryVars, clubVars, runVars, backfillVars >>

NextFilter == FilterPostsByTeam

SpecFilter == InitFilter /\ [][NextFilter]_vars

\* The variation, lowercased, is found at some place of the lowercased text
\* where no character it covers is whitespace (and the text has a token).
OccursInsideToken(variation, text) ==
  LET v == Lower(variation)
      t == Lower(text)
  IN  /\ \E a \in 1..(Len(t) + 1) :
           /\ a + Len(v) - 1 <= Len(t)
           /\ \A k \in 1..Len(v) : t[a + k - 1] = v[k] /\ ~IsSpace(v[k])
      /\ \E p \in 1..Len(t) : ~IsSpace(t[p])

Attributed(text, variations) ==
  \E k \in 1..Len(variations) : OccursInsideToken(variations[k], text)

IsAttributedPost(post) == Attributed(post.text, team_variations)

Tokens(t) ==
  { SubSeq(t, a, b) : a \in 1..Len(t), b \in 1..Len(t) } \cap
  { SubSeq(t, a, b) : <<a, b>> \in
      { ab \in (1..Len(t)) \X (1..Len(t)) :
          /\ ab[1] <= ab[2]
          /\ \A k \in ab[1]..ab[2] : ~IsSpace(t[k])
          /\ ab[1] = 1 \/ IsSpace(t[ab[1] - 1])
          /\ ab[2] = Len(t) \/ IsSpace(t[ab[2] + 1]) } }

WholeTokenMatch(text, variations) ==
  \E k \in 1..Len(variations) : Lower(variations[k]) \in Tokens(Lower(text))

\* C2: a post is retained iff some variation, lowercased, is equal to a full
\* whitespace-delimited token of the lowercased text.
C2_RetainedIffWholeToken ==
  pc = "filter_return" =>
    \A k \in 1..Len(filter_posts) :
      (\E j \in 1..Len(relevant_posts) : relevant_posts[j] = filter_posts[k])
        <=> WholeTokenMatch(filter_posts[k].text, team_variations)

(***************************************************************************)
(* main.py: generate_team_summary                                          *)
(***************************************************************************)
\* for entity in response.entities[:10]
ScanLimit == 10
\* len(entity.name) < 4
MinNameLength == 4
\* entity.salience > 0.02, in ten-thousandths
SalienceThreshold == 200
\* if len(entities) >= 3: break
TopicLimit == 3

Min(a, b) == IF a <= b THEN a ELSE b

\* round(entity.salience, 3): ten-thousandths to thousandths. No salience the
\* extractor delivers here ends in 5, where the result depends on the binary
\* representation of the float.
RoundSalience(s) == (s + 5) \div 10

\* A mutation of generic_terms: the club's own name is left out.
generic_terms_without_own_name(name) == FixedGenericTerms

\* generic_terms = {team_name.lower(), 'premier league', ...}
generic_terms(name) == {Lower(name)} \cup FixedGenericTerms

\* A mutation of ScannedEntities: the whole response is scanned.
ScannedWholeResponse(entity_list) == entity_list

\* response.entities[:10]
ScannedEntities(entity_list) ==
  SubSeq(entity_list, 1, Min(ScanLimit, Len(entity_list)))

RECURSIVE EntityLoop(_, _, _, _)
EntityLoop(scanned, k, terms, kept) ==
  IF k > Len(scanned) THEN kept
  ELSE LET entity == scanned[k]
           name_lower == Lower(entity.name)
       IN  IF name_lower \in terms \/ Len(entity.name) < MinNameLength
           THEN EntityLoop(scanned, k + 1, terms, kept)
           ELSE LET kept2 ==
                      IF entity.salience > SalienceThreshold
                      THEN Append(kept, [name |-> entity.name,
                                         type |-> entity.type,
                                         salience |-> RoundSalience(entity.salience)])
                      ELSE kept
                IN  IF Len(kept2) >= TopicLimit THEN kept2
                    ELSE EntityLoop(scanned, k + 1, terms, kept2)

\* The value generate_team_summary returns when analyze_entities answers
\* with entity_list.
generate_team_summary(entity_list, name) ==
  EntityLoop(ScannedEntities(entity_list), 1, generic_terms(name), << >>)

(***************************************************************************)
(* generate_team_summary as a function of the club and of the extractor's  *)
(* response.                                                               *)
(***************************************************************************)
Entity(n, t, s) == [name |-> n, type |-> t, salience |-> s]

EntitySalah == Entity(NameSalah, "Type.PERSON", 3100)
EntityAnfield == Entity(NameAnfield, "Type.LOCATION", 1204)
EntityEverton == Entity(NameEverton, "Type.ORGANIZATION", 2000)
EntityArsenal == Entity(NameArsenalUpper, "Type.ORGANIZATION", 2500)
EntityVAR == Entity(NameVAR, "Type.OTHER", 3000)
EntityKlopp == Entity(NameKlopp, "Type.PERSON", 200)
EntityReds == Entity(NameReds, "Type.ORGANIZATION", 1500)
EntityPremierLeague == Entity(NamePremierLeague, "Type.ORGANIZATION", 4000)

RichEntities ==
  { EntitySalah, EntityAnfield, EntityEverton, EntityArsenal, EntityVAR,
    EntityKlopp, EntityReds }

TailEntities == { EntitySalah, EntityAnfield, EntityPremierLeague }

Padding(n) == [k \in 1..n |-> EntityPremierLeague]

\* At most n entities of any kind, or up to pad generic entities followed
\* by at most t entities.
Responses(n, pad, t) ==
  Lists(RichEntities, n)
  \cup { Padding(m) \o tail : m \in 0..pad, tail \in Lists(TailEntities, t) }

\* Liverpool and Everton
SummaryTeams == { PREMIER_LEAGUE_TEAMS[3].name, PREMIER_LEAGUE_TEAMS[15].name }

InitSummary ==
  /\ pc = "summary_call"
  /\ team_name \in SummaryTeams
  /\ response \in Responses(MaxEntities, MaxPad, MaxTail)
  /\ entities = << >>
  /\ team_variations = << >>
  /\ filter_posts = << >>
  /\ relevant_posts = << >>
  /\ RunIdle
  /\ BackfillIdle

\* analyze_entities answers; the loop filters the response
GenerateTeamSummary ==
  /\ pc = "summary_call"
  /\ entities' = generate_team_summary(response, team_name)
  /\ pc' = "summary_return"
  /\ UNCHANGED << backfillVars, filterVars, clubVars, response, runVars >>

\* analyze_entities raises: except Exception: return []
GenerateTeamSummaryFails ==
  /\ pc = "summary_call"
  /\ entities' = << >>
  /\ pc' = "summary_failed"
  /\ UNCHANGED << backfillVars, filterVars, clubVars, response, runVars >>

NextSummary == GenerateTeamSummary \/ GenerateTeamSummaryFails

SpecSummary == InitSummary /\ [][NextSummary]_vars

\* Every name a club of the roster goes by, lowercased.
AllClubNames ==
  UNION { {Lower(PREMIER_LEAGUE_TEAMS[i].name)}
          \cup {Lower(PREMIER_LEAGUE_TEAMS[i].variations[k]) :
                  k \in 1..Len(PREMIER_LEAGUE_TEAMS[i].variations)} :
          i \in 1..Len(PREMIER_LEAGUE_TEAMS) }

\* The club names the denylist holds.
DenylistedClubNames == AllClubNames \cap FixedGenericTerms

\* C6: key_topics has at most 3 entries, and no entry's name equals, ignoring
\* case, the club's own canonical name or a club name of the denylist.
C6_TopicsBoundedAndNotClubNames ==
  pc \in {"summary_return", "summary_failed"} =>
    /\ Len(entities) <= 3
    /\ \A k \in 1..Len(entities) :
         /\ Lower(entities[k].name) # Lower(team_name)
         /\ Lower(entities[k].name) \notin DenylistedClubNames

C6_Witness ==
  /\ pc = "summary_return"
  /\ team_name = PREMIER_LEAGUE_TEAMS[15].name
  /\ response = <<EntityEverton, EntityArsenal, EntitySalah>>
  /\ Len(entities) = 1
  /\ entities[1].name = NameSalah

\* An entity that passes the filters of the loop.
Qualifies(entity) ==
  /\ Lower(entity.name) # Lower(team_name)
  /\ Lower(entity.name) \notin FixedGenericTerms
  /\ Len(entity.name) >= 4
  /\ entity.salience > 200

Topic(entity) ==
  [name |-> entity.name, type |-> entity.type,
   salience |-> RoundSalience(entity.salience)]

FirstQualifying(entity_list, n) ==
  LET q == SelectSeq(entity_list, Qualifies)
  IN  [k \in 1..Min(n, Len(q)) |-> Topic(q[k])]

\* C7 as claimed: key_topics is the first 3 qualifying entities of the
\* response, wherever in the response they are.
C7_FirstThreeOfWholeResponse ==
  pc = "summary_return" => entities = FirstQualifying(response, 3)

\* C7 as amended: key_topics is the first 3 qualifying entities among the
\* first 10 entities of the response, in the response's order (all of them
\* when there are fewer than 3); entities after the 10th are never kept.
C7_FirstThreeOfFirstTen ==
  pc = "summary_return" =>
    entities = FirstQualifying(SubSeq(response, 1, Min(10, Len(response))), 3)

C7_Witness ==
  /\ pc = "summary_return"
  /\ Len(response) > 10
  /\ Qualifies(response[11])
  /\ Len(entities) = 2
  /\ entities[1].name # entities[2].name

IsDigit(c) == c \in {"0", "1", "2", "3", "4", "5", "6", "7", "8", "9"}

PurelyNumeric(name) == Len(name) > 0 /\ \A k \in 1..Len(name) : IsDigit(name[k])

UrlLike(name) ==
  \/ Contains(<<"h", "t", "t", "p">>, Lower(name))
  \/ Contains(<<"w", "w", "w", ".">>, Lower(name))
  \/ Contains(<<"/">>, name)

\* The denylist of the claim: the club's own name variations, every other
\* club's names and the generic football vocabulary.
FullDenylist == AllClubNames \cup FixedGenericTerms

\* C8: every entity kept in key_topics is outside the denylist (own name
\* variations, every other club's names, generic vocabulary), has the minimum
\* name length, is neither URL-like nor purely numeric, and has a salience
\* above the threshold.
C8_KeptEntitiesPassAllFilters ==
  pc = "summary_return" =>
    \A k \in 1..Len(entities) :
      \E i \in 1..Len(response) :
        /\ Topic(response[i]) = entities[k]
        /\ Lower(response[i].name) \notin FullDenylist
        /\ Len(response[i].name) >= 4
        /\ ~UrlLike(response[i].name)
        /\ ~PurelyNumeric(response[i].name)
        /\ response[i].salience > 200

(***************************************************************************)
(* main.py: analyze_sentiment and the aggregation of sentiment_tracker     *)
(***************************************************************************)
\* for post in posts[:7]
ArticleLimit == 7
\* if len(text) < 30: continue
MinTextLength == 30

\* The score document_sentiment holds for a text, in thousandths. The service
\* is outside the program: a table over the texts the feeds deliver.
SentimentScore(text) ==
  CASE text = TextSuperbWin -> 200
    [] text = TextSolidPoint -> 100
    [] text = TextInjuryWorry -> -50
    [] text = TextHatTrick -> 300
    [] text = TextSquadNews -> 0
    [] text = TextElectricity -> -400
    [] text = TextCityDraw -> -100
    [] text = TextRedsRally -> 600
    [] OTHER -> 0

\* A mutation of TooShort: a threshold of 40 characters.
TooShortForty(text) == Len(text) < 40

\* len(text) < 30
TooShort(text) == Len(text) < MinTextLength

\* A mutation of ConsideredPosts: every post is scored.
ConsideredAllPosts(post_list) == post_list

\* A mutation of ConsideredPosts: the first 8 posts.
ConsideredEightPosts(post_list) ==
  SubSeq(post_list, 1, Min(ArticleLimit + 1, Len(post_list)))

\* posts[:7]
ConsideredPosts(post_list) ==
  SubSeq(post_list, 1, Min(ArticleLimit, Len(post_list)))

\* The scoring loop over posts[:7]; failing holds the indices of the posts
\* whose analyze_sentiment call raises (analyze_sentiment then returns None).
\* scored collects the indices for which score is not None.
RECURSIVE ScoredIndices(_, _, _, _)
ScoredIndices(considered, failing, k, scored) ==
  IF k > Len(considered) THEN scored
  ELSE IF TooShort(considered[k].text)
       THEN ScoredIndices(considered, failing, k + 1, scored)
       ELSE IF k \in failing
            THEN ScoredIndices(considered, failing, k + 1, scored)
            ELSE ScoredIndices(considered, failing, k + 1, Append(scored, k))

\* sum(sentiments)
RECURSIVE Sum(_)
Sum(scores) ==
  IF scores = << >> THEN 0 ELSE scores[1] + Sum(Tail(scores))

\* A mutation of MeanDivisor: the number of posts looked at.
MeanDivisorConsidered(scores, post_list) == Len(ConsideredPosts(post_list))

\* len(sentiments)
MeanDivisor(scores, post_list) == Len(scores)

\* round(total / n, 3) in thousandths, total being a sum of thousandths.
\* Half-way between two thousandths the float decides, by its binary
\* representation: both neighbours are outcomes.
RoundedMean(total, n) ==
  LET q == total \div n
      r == total % n
  IN  IF 2 * r < n THEN {q}
      ELSE IF 2 * r > n THEN {q + 1}
      ELSE {q, q + 1}

(***************************************************************************)
(* data_sources.py: fetch_combined_news                                    *)
(***************************************************************************)
GooglePost(t) == [text |-> t, source |-> "Google News"]
SkyPost(t) == [text |-> t, source |-> "Sky Sports"]

\* fetch_google_news(team_name, limit=10)
GoogleLimit == 10
\* fetch_bbc_sport_news(limit=20)
BbcLimit == 20
\* for entry in feed.entries[:20]
SkyLimit == 20

\* A mutation of the fetchers: the exception of the retrieval is not caught
\* and the entries read so far are returned.
FetcherKeepsEntriesOnError(entries, limit, ok) ==
  SubSeq(entries, 1, Min(limit, Len(entries)))

\* fetch_google_news, fetch_bbc_sport_news, fetch_sky_sports_news: the first
\* limit entries of the feed; ok is FALSE when the retrieval or the parsing
\* raises: except Exception: return [].
Fetcher(entries, limit, ok) ==
  IF ok THEN SubSeq(entries, 1, Min(limit, Len(entries))) ELSE << >>

fetch_google_news(entries, ok) == Fetcher(entries, GoogleLimit, ok)
fetch_bbc_sport_news(entries, ok) == Fetcher(entries, BbcLimit, ok)
fetch_sky_sports_news(entries, ok) == Fetcher(entries, SkyLimit, ok)

\* A mutation of CombinedPosts: the shared feeds come before Google News.
CombinedPostsSharedFirst(google_list, bbc_list, sky_list, name, variations) ==
  LET filtered_bbc == IF bbc_list # << >>
                      THEN filter_posts_by_team(bbc_list, name, variations)
                      ELSE << >>
      filtered_sky == IF sky_list # << >>
                      THEN filter_posts_by_team(sky_list, name, variations)
                      ELSE << >>
  IN  filtered_bbc \o filtered_sky \o google_list

\* A mutation of CombinedPosts: the Google News articles go through the
\* filter as well.
CombinedPostsFiltersGoogle(google_list, bbc_list, sky_list, name, variations) ==
  LET filtered_bbc == IF bbc_list # << >>
                      THEN filter_posts_by_team(bbc_list, name, variations)
                      ELSE << >>
      filtered_sky == IF sky_list # << >>
                      THEN filter_posts_by_team(sky_list, name, variations)
                      ELSE << >>
  IN  filter_posts_by_team(google_list, name, variations)
        \o filtered_bbc \o filtered_sky

\* all_posts, from what the three fetchers returned.
CombinedPosts(google_list, bbc_list, sky_list, name, variations) ==
  LET filtered_bbc == IF bbc_list # << >>
                      THEN filter_posts_by_team(bbc_list, name, variations)
                      ELSE << >>
      filtered_sky == IF sky_list # << >>
                      THEN filter_posts_by_team(sky_list, name, variations)
                      ELSE << >>
  IN  google_list \o filtered_bbc \o filtered_sky

\* ok[s] is FALSE when the fetcher of source s raises, and so returns [].
fetch_combined_news(google, bbc, sky, name, variations, ok) ==
  CombinedPosts(fetch_google_news(google, ok["google"]),
                fetch_bbc_sport_news(bbc, ok["bbc"]),
                fetch_sky_sports_news(sky, ok["sky"]),
                name, variations)

(***************************************************************************)
(* main.py: sentiment_tracker                                              *)
(***************************************************************************)
Sources == {"google", "bbc", "sky"}

CurrentTeam == PREMIER_LEAGUE_TEAMS[teams_to_process[team_idx]]

\* The next iteration of `for team_name, team_variations in ...`, or the
\* summary after the last one.
NextClub ==
  /\ team_idx' = team_idx + 1
  /\ pc' = IF team_idx + 1 > Len(teams_to_process) THEN "return" ELSE "fetch"

Ended(outcome, steps, scores, written) ==
  visited' = Append(visited, [team |-> teams_to_process[team_idx],
                              outcome |-> outcome,
                              raised |-> steps,
                              scores |-> scores,
                              written |-> written])

FetchedPosts(ok) ==
  fetch_combined_news(feeds.google[team_idx], feeds.bbc, feeds.sky,
                      CurrentTeam.name, CurrentTeam.variations, ok)

FetchRaised(ok) == IF \E s \in Sources : ~ok[s] THEN {"fetch"} ELSE {}

\* google_posts, bbc_posts and sky_posts of fetch_combined_news
FetcherResults(ok) ==
  /\ google_posts' = fetch_google_news(feeds.google[team_idx], ok["google"])
  /\ bbc_posts' = fetch_bbc_sport_news(feeds.bbc, ok["bbc"])
  /\ sky_posts' = fetch_sky_sports_news(feeds.sky, ok["sky"])
  /\ UNCHANGED fetch_ok

\* posts = fetch_combined_news(...), with posts
FetchCombinedNews ==
  /\ pc = "fetch"
  /\ \E ok \in [Sources -> BOOLEAN] :
       LET all_posts == FetchedPosts(ok)
       IN  /\ all_posts # << >>
           /\ posts' = all_posts
           /\ FetcherResults(ok)
           /\ raised' = FetchRaised(ok)
  /\ team_name' = CurrentTeam.name
  /\ team_variations' = CurrentTeam.variations
  /\ clock' = clock + 3
  /\ failed_calls' = {}
  /\ nlp_calls' = [sentiment |-> 0, entities |-> 0]
  /\ pc' = "score"
  /\ UNCHANGED << backfillVars, invocationVars, filterVars, summaryVars, feeds, teams_to_process, team_idx,
                  sentiments, sources_used, db, results, returned, visited >>

\* posts = fetch_combined_news(...); if not posts: continue
FetchNoArticles ==
  /\ pc = "fetch"
  /\ \E ok \in [Sources -> BOOLEAN] :
       /\ FetchedPosts(ok) = << >>
       /\ posts' = << >>
       /\ FetcherResults(ok)
       /\ raised' = FetchRaised(ok)
       /\ Ended("no_articles", FetchRaised(ok), << >>, << >>)
  /\ team_name' = CurrentTeam.name
  /\ team_variations' = CurrentTeam.variations
  /\ clock' = clock + 3
  /\ failed_calls' = {}
  /\ nlp_calls' = [sentiment |-> 0, entities |-> 0]
  /\ NextClub
  /\ UNCHANGED << backfillVars, invocationVars, filterVars, summaryVars, feeds, teams_to_process,
                  sentiments, sources_used, db, results, returned >>

\* sentiments = []; sources_used = set(); for post in posts[:7]: ...
AnalyzeArticles ==
  /\ pc = "score"
  /\ LET considered == ConsideredPosts(posts)
         scorable == {k \in 1..Len(considered) : ~TooShort(considered[k].text)}
     IN  \E failing \in SUBSET scorable :
           /\ Cardinality(failing) <= MaxFailures
           /\ LET scored == ScoredIndices(considered, failing, 1, << >>)
              IN  /\ sentiments' = [j \in 1..Len(scored) |->
                                      SentimentScore(considered[scored[j]].text)]
                  /\ sources_used' = {considered[scored[j]].source :
                                        j \in 1..Len(scored)}
                  /\ nlp_calls' = [sentiment |-> Len(scored) + Cardinality(failing),
                                   entities |-> 0]
           /\ failed_calls' = failing
           /\ raised' = raised \cup (IF failing # {} THEN {"scoring"} ELSE {})
  /\ pc' = "store"
  /\ UNCHANGED << backfillVars, invocationVars, fetchVars, filterVars, summaryVars, clubVars, feeds, teams_to_process,
                  team_idx, posts, db, results, returned, clock, visited >>

\* if sentiments: ... else: print("No valid sentiment data")
NoSentimentData ==
  /\ pc = "store"
  /\ sentiments = << >>
  /\ Ended("no_data", raised, << >>, << >>)
  /\ NextClub
  /\ UNCHANGED << backfillVars, invocationVars, fetchVars, filterVars, summaryVars, clubVars, feeds, teams_to_process,
                  posts, sentiments, sources_used, db, results, returned, clock,
                  failed_calls, nlp_calls, raised >>

\* What analyze_entities does when the run calls it: it raises, or it answers.
RunResponses == { <<EntityPremierLeague, EntitySalah, EntityArsenal>> }

ExtractorOutcomes ==
  { [raises |-> TRUE, entities |-> << >>] }
  \cup { [raises |-> FALSE, entities |-> r] : r \in RunResponses }

TopicsOf(outcome, name) ==
  IF outcome.raises THEN << >> ELSE generate_team_summary(outcome.entities, name)

Snapshot(avg) ==
  [team |-> team_name,
   avg_sentiment |-> avg,
   article_count |-> Len(sentiments),
   sources |-> sources_used,
   key_topics |-> entities',
   timestamp |-> clock,
   league |-> "Premier League",
   data_type |-> "News Sentiment"]

Summarised(outcome) ==
  /\ response' = outcome.entities
  /\ entities' = TopicsOf(outcome, team_name)
  /\ nlp_calls' = [nlp_calls EXCEPT !.entities = 1]

\* The collection after a set() on a document keyed by the club: the record
\* of the club is replaced where there is one.
Upserted(collection, record) ==
  IF \E k \in 1..Len(collection) : collection[k].team = record.team
  THEN [k \in 1..Len(collection) |->
          IF collection[k].team = record.team THEN record ELSE collection[k]]
  ELSE Append(collection, record)

\* A mutation of WriteSnapshot: one document per club, overwritten.
WriteSnapshotUpserts ==
  /\ pc = "store"
  /\ sentiments # << >>
  /\ \E outcome \in ExtractorOutcomes :
       /\ Summarised(outcome)
       /\ \E avg \in RoundedMean(Sum(sentiments), MeanDivisor(sentiments, posts)) :
            /\ db' = Upserted(db, Snapshot(avg))
            /\ results' = Append(results, Snapshot(avg))
            /\ LET steps == raised \cup (IF outcome.raises THEN {"entities"} ELSE {})
               IN  /\ raised' = steps
                   /\ Ended("written", steps, sentiments, <<Snapshot(avg)>>)
  /\ NextClub
  /\ UNCHANGED << backfillVars, invocationVars, fetchVars, filterVars, clubVars, feeds, teams_to_process, posts, sentiments,
                  sources_used, returned, clock, failed_calls >>

\* if sentiments: avg_sentiment = ...; entities = generate_team_summary(...);
\* db.collection('team_sentiment').add(result); results.append(result)
WriteSnapshot ==
  /\ pc = "store"
  /\ sentiments # << >>
  /\ \E outcome \in ExtractorOutcomes :
       /\ Summarised(outcome)
       /\ \E avg \in RoundedMean(Sum(sentiments), MeanDivisor(sentiments, posts)) :
            /\ db' = Append(db, Snapshot(avg))
            /\ results' = Append(results, Snapshot(avg))
            /\ LET steps == raised \cup (IF outcome.raises THEN {"entities"} ELSE {})
               IN  /\ raised' = steps
                   /\ Ended("written", steps, sentiments, <<Snapshot(avg)>>)
  /\ NextClub
  /\ UNCHANGED << backfillVars, invocationVars, fetchVars, filterVars, clubVars, feeds, teams_to_process, posts, sentiments,
                  sources_used, returned, clock, failed_calls >>

\* A mutation of StoreWriteFails: the exception of add() leaves the loop.
StoreWriteFailsAbortsRun ==
  /\ pc = "store"
  /\ sentiments # << >>
  /\ \E outcome \in ExtractorOutcomes :
       /\ Summarised(outcome)
       /\ LET steps == raised \cup {"store"}
                         \cup (IF outcome.raises THEN {"entities"} ELSE {})
          IN  /\ raised' = steps
              /\ Ended("error", steps, sentiments, << >>)
  /\ team_idx' = team_idx + 1
  /\ pc' = "return"
  /\ UNCHANGED << backfillVars, invocationVars, fetchVars, filterVars, clubVars, feeds, teams_to_process, posts, sentiments,
                  sources_used, db, results, returned, clock, failed_calls >>

\* The same, db.collection('team_sentiment').add(result) raising:
\* except Exception as e: print(...); continue
StoreWriteFails ==
  /\ pc = "store"
  /\ sentiments # << >>
  /\ \E outcome \in ExtractorOutcomes :
       /\ Summarised(outcome)
       /\ LET steps == raised \cup {"store"}
                         \cup (IF outcome.raises THEN {"entities"} ELSE {})
          IN  /\ raised' = steps
              /\ Ended("error", steps, sentiments, << >>)
  /\ NextClub
  /\ UNCHANGED << backfillVars, invocationVars, fetchVars, filterVars, clubVars, feeds, teams_to_process, posts, sentiments,
                  sources_used, db, results, returned, clock, failed_calls >>

RECURSIVE TotalArticles(_)
TotalArticles(rs) ==
  IF rs = << >> THEN 0 ELSE rs[1].article_count + TotalArticles(Tail(rs))

\* A mutation of ReturnSummary: teams_processed counts the clubs visited.
ReturnSummaryCountsVisited ==
  /\ pc = "return"
  /\ returned' = << [status |-> "success",
                     teams_processed |-> Len(visited),
                     total_articles |-> TotalArticles(results),
                     results |-> [k \in 1..Len(results) |->
                                    [team |-> results[k].team,
                                     sentiment |-> results[k].avg_sentiment]]],
                    200 >>
  /\ pc' = "done"
  /\ UNCHANGED << backfillVars, invocationVars, fetchVars, filterVars, summaryVars, clubVars, feeds, teams_to_process,
                  team_idx, posts, sentiments, sources_used, db, results, clock,
                  failed_calls, nlp_calls, raised, visited >>

\* return {...}, 200
ReturnSummary ==
  /\ pc = "return"
  /\ returned' = << [status |-> "success",
                     teams_processed |-> Len(results),
                     total_articles |-> TotalArticles(results),
                     results |-> [k \in 1..Len(results) |->
                                    [team |-> results[k].team,
                                     sentiment |-> results[k].avg_sentiment]]],
                    200 >>
  /\ pc' = "done"
  /\ UNCHANGED << backfillVars, invocationVars, fetchVars, filterVars, summaryVars, clubVars, feeds, teams_to_process,
                  team_idx, posts, sentiments, sources_used, db, results, clock,
                  failed_calls, nlp_calls, raised, visited >>

(***************************************************************************)
(* The runs: what the feeds hold and which clubs are processed.            *)
(***************************************************************************)
RichFeedTexts == {TextSuperbWin, TextInjuryWorry, TextFullTime}
LongFeedTexts == {TextSuperbWin, TextFullTime}
ScenarioTexts ==
  {TextSuperbWin, TextSolidPoint, TextInjuryWorry, TextHatTrick, TextSquadNews}

GoogleLists(texts, n) ==
  { [k \in DOMAIN ts |-> GooglePost(ts[k])] : ts \in Lists(texts, n) }

Injective(s) == \A i, j \in DOMAIN s : s[i] = s[j] => i = j

BbcFeed == <<BbcPost(TextElectricity), BbcPost(TextTransfers)>>
SkyFeed == <<SkyPost(TextCityDraw), SkyPost(TextRedsRally)>>

\* The shared feeds: both empty, or both with articles.
SharedFeeds == { << << >>, << >> >>, <<BbcFeed, SkyFeed>> }

Shorts(l) == Cardinality({k \in DOMAIN l : TooShort(l[k].text)})

\* One club (Manchester City): a few articles of any kind, or many articles
\* of which few are short.
DeepWorlds(rich, long, shorts) ==
  { [teams |-> <<1>>, google |-> <<g>>, bbc |-> f[1], sky |-> f[2]] :
      g \in GoogleLists(RichFeedTexts, rich)
              \cup { l \in GoogleLists(LongFeedTexts, long) : Shorts(l) <= shorts },
      f \in SharedFeeds }

\* The first n clubs of the roster with at most one Google article each and
\* nothing in the shared feeds.
WideWorlds(n) ==
  { [teams |-> [k \in 1..n |-> k], google |-> g, bbc |-> << >>, sky |-> << >>] :
      g \in [1..n -> GoogleLists({TextSuperbWin}, 1)] }

\* Liverpool with the five articles of the scenario, or some of them.
ScenarioWorlds(team) ==
  { [teams |-> <<team>>, google |-> <<g>>, bbc |-> << >>, sky |-> << >>] :
      g \in { l \in GoogleLists(ScenarioTexts, 5) : Injective(l) } }

Worlds(n, rich, long, shorts) ==
  DeepWorlds(rich, long, shorts) \cup WideWorlds(n) \cup ScenarioWorlds(3)

\* Liverpool and Everton with at most one Google article each, nothing in the
\* shared feeds, and the scheduler invoking the function up to r times.
RepeatWorlds(r) ==
  { [teams |-> <<3, 15>>, google |-> g, bbc |-> << >>, sky |-> << >>,
     runs |-> k] :
      g \in [1..2 -> GoogleLists({TextSolidPoint}, 1)], k \in 2..r }

\* The locals of an invocation before its first statement.
Invoked ==
  /\ team_idx = 1
  /\ posts = << >>
  /\ sentiments = << >>
  /\ sources_used = {}
  /\ results = << >>
  /\ returned = << >>
  /\ failed_calls = {}
  /\ nlp_calls = [sentiment |-> 0, entities |-> 0]
  /\ raised = {}
  /\ visited = << >>
  /\ google_posts = << >>
  /\ bbc_posts = << >>
  /\ sky_posts = << >>
  /\ team_name = << >>
  /\ team_variations = << >>
  /\ response = << >>
  /\ entities = << >>

Init ==
  /\ pc = "start"
  /\ \/ \E w \in Worlds(NumTeams, MaxRichFeed, MaxGoogle, MaxShorts) :
          /\ teams_to_process = w.teams
          /\ feeds = [google |-> w.google, bbc |-> w.bbc, sky |-> w.sky]
          /\ runs_left = 0
     \/ \E w \in RepeatWorlds(MaxRuns) :
          /\ teams_to_process = w.teams
          /\ feeds = [google |-> w.google, bbc |-> w.bbc, sky |-> w.sky]
          /\ runs_left = w.runs - 1
  /\ Invoked
  /\ db = << >>
  /\ db_before = << >>
  /\ clock = 0
  /\ fetch_ok = [s \in Sources |-> TRUE]
  /\ BackfillIdle
  /\ filter_posts = << >>
  /\ relevant_posts = << >>

\* A mutation of InitializeClients: the constructors are inside a try that
\* ends the invocation with the summary.
InitializeClientsGuarded ==
  /\ pc = "start"
  /\ pc' \in {"fetch", "return"}
  /\ results' = << >>
  /\ UNCHANGED << backfillVars, invocationVars, fetchVars, filterVars,
                  summaryVars, clubVars, feeds, teams_to_process, team_idx,
                  posts, sentiments, sources_used, db, returned, clock,
                  failed_calls, nlp_calls, raised, visited >>

\* nlp_client = language_v1.LanguageServiceClient(); db = firestore.Client();
\* results = []; teams_to_process = PREMIER_LEAGUE_TEAMS. A constructor that
\* raises (no credentials, no project) is inside no try: the exception
\* leaves sentiment_tracker.
InitializeClients ==
  /\ pc = "start"
  /\ pc' \in {"fetch", "raised"}
  /\ results' = << >>
  /\ UNCHANGED << backfillVars, invocationVars, fetchVars, filterVars,
                  summaryVars, clubVars, feeds, teams_to_process, team_idx,
                  posts, sentiments, sources_used, db, returned, clock,
                  failed_calls, nlp_calls, raised, visited >>

\* The invocation has ended, with a return or with an exception.
Terminated == pc \in {"done", "raised"}

\* The scheduler invokes the function again: the store and the feeds are as
\* the previous invocation left them.
InvokeAgain ==
  /\ Terminated
  /\ runs_left > 0
  /\ runs_left' = runs_left - 1
  /\ db_before' = db
  /\ pc' = "start"
  /\ team_idx' = 1
  /\ posts' = << >>
  /\ sentiments' = << >>
  /\ sources_used' = {}
  /\ results' = << >>
  /\ returned' = << >>
  /\ failed_calls' = {}
  /\ nlp_calls' = [sentiment |-> 0, entities |-> 0]
  /\ raised' = {}
  /\ visited' = << >>
  /\ google_posts' = << >>
  /\ bbc_posts' = << >>
  /\ sky_posts' = << >>
  /\ team_name' = << >>
  /\ team_variations' = << >>
  /\ response' = << >>
  /\ entities' = << >>
  /\ UNCHANGED << backfillVars, filterVars, feeds, teams_to_process, db, clock,
                  fetch_ok >>

Next ==
  \/ InitializeClients
  \/ FetchCombinedNews
  \/ FetchNoArticles
  \/ AnalyzeArticles
  \/ NoSentimentData
  \/ WriteSnapshot
  \/ StoreWriteFails
  \/ ReturnSummary
  \/ InvokeAgain

Spec == Init /\ [][Next]_vars

(***************************************************************************)
(* Properties of a run.                                                    *)
(***************************************************************************)
Last(s) == s[Len(s)]

Abs(x) == IF x < 0 THEN -x ELSE x

\* The snapshots the current invocation has written.
RunRecords == SubSeq(db, Len(db_before) + 1, Len(db))

\* A club iteration has just ended: posts, failed_calls, team_name are still
\* those of the club of the last entry of visited.
JustEnded == pc \in {"fetch", "return", "done"} /\ visited # << >>

JustWritten == JustEnded /\ Last(visited).outcome = "written"

\* The posts of the club whose scoring returned a score: among the first 7,
\* with at least 30 characters, and with a call that did not raise.
SuccessfullyScored ==
  { k \in 1..Len(posts) :
      k <= 7 /\ Len(posts[k].text) >= 30 /\ k \notin failed_calls }

\* Their scores, in the order of the posts.
ScoresOfClub ==
  LET PostIndices == [k \in 1..Len(posts) |-> k]
      IsScored(k) == k \in SuccessfullyScored
      scored == SelectSeq(PostIndices, IsScored)
  IN  [j \in 1..Len(scored) |-> SentimentScore(posts[scored[j]].text)]

\* C3: the avg_sentiment persisted for a club is the mean of the scores of
\* its successfully scored articles rounded to 3 decimals (at most half a
\* thousandth away from the mean), and a club with no successfully scored
\* article gets no snapshot in the run.
C3_AvgIsRoundedMean ==
  JustEnded =>
    LET v == Last(visited)
        scores == ScoresOfClub
    IN  /\ v.outcome = "written" =>
             /\ scores # << >>
             /\ Last(db).team = team_name
             /\ 2 * Abs(Last(db).avg_sentiment * Len(scores) - Sum(scores))
                  <= Len(scores)
        /\ scores = << >> =>
             /\ v.outcome # "written"
             /\ \A k \in 1..Len(RunRecords) : RunRecords[k].team # team_name

C3_Witness ==
  /\ JustWritten
  /\ Len(ScoresOfClub) = 3
  /\ Sum(ScoresOfClub) % 3 # 0
  /\ failed_calls # {}
  /\ \E k \in 1..Len(posts) : Len(posts[k].text) < 30

\* The scenario: Liverpool, variations Liverpool, LFC and Reds, 5 fetched
\* articles, each long enough, scored 0.2, 0.1, -0.05, 0.3 and 0.0.
LiverpoolScenario ==
  /\ JustWritten
  /\ team_name = <<"L", "i", "v", "e", "r", "p", "o", "o", "l">>
  /\ team_variations = << <<"L", "i", "v", "e", "r", "p", "o", "o", "l">>,
                          <<"L", "F", "C">>, <<"R", "e", "d", "s">> >>
  /\ Len(posts) = 5
  /\ \A k \in 1..5 : Len(posts[k].text) >= 30
  /\ failed_calls = {}
  /\ [k \in 1..5 |-> SentimentScore(posts[k].text)] = <<200, 100, -50, 300, 0>>

\* C4 as claimed: in the scenario the snapshot has avg_sentiment 0.13 and
\* article_count 5.
C4_ScenarioAverageIsPoint13 ==
  LiverpoolScenario =>
    Last(db).avg_sentiment = 130 /\ Last(db).article_count = 5

\* C4 as amended: in the scenario the snapshot has avg_sentiment 0.11 (the
\* mean of 0.2, 0.1, -0.05, 0.3 and 0.0 is 0.55 / 5) and article_count 5.
C4_ScenarioAverageIsPoint11 ==
  LiverpoolScenario =>
    Last(db).avg_sentiment = 110 /\ Last(db).article_count = 5

C4_Witness == LiverpoolScenario /\ Last(db).team = team_name

\* C5: the article_count of a snapshot is the number of articles whose
\* scoring returned a score, and is at most the number of articles of the
\* club and at most 7.
C5_ArticleCountIsScoredCount ==
  JustWritten =>
    /\ Last(db).article_count = Cardinality(SuccessfullyScored)
    /\ Last(db).article_count <= Len(posts)
    /\ Last(db).article_count <= 7

C5_Witness ==
  /\ JustWritten
  /\ Len(posts) > 7
  /\ \E k \in 1..7 : Len(posts[k].text) < 30
  /\ failed_calls # {}
  /\ Last(db).article_count = 5
  /\ Len(posts[8].text) >= 30

ClubName(v) == PREMIER_LEAGUE_TEAMS[v.team].name

InResults(v) == \E k \in 1..Len(results) : results[k].team = ClubName(v)

InStore(v) == \E k \in 1..Len(RunRecords) : RunRecords[k].team = ClubName(v)

RECURSIVE WrittenBy(_)
WrittenBy(vs) ==
  IF vs = << >> THEN << >> ELSE vs[1].written \o WrittenBy(Tail(vs))

\* C10 as claimed: a club whose processing raised at any step (fetch, scoring,
\* entity extraction, store write) has no snapshot and no entry in results.
C10_AnyRaiseSkipsClub ==
  \A k \in 1..Len(visited) :
    visited[k].raised # {} => ~InResults(visited[k]) /\ ~InStore(visited[k])

\* C10 as amended: a club whose store write raises has no snapshot and no
\* entry in results; an exception raised inside a fetcher, a scoring call or
\* the entity extraction is caught there and does not skip the club, which is
\* written whenever an article was scored and the store write succeeds; in
\* both cases every later club is processed and the store holds, in order
\* and unchanged, the snapshots written so far.
C10_StoreFailureSkipsOnlyThatClub ==
  /\ \A k \in 1..Len(visited) :
       /\ "store" \in visited[k].raised =>
            ~InResults(visited[k]) /\ ~InStore(visited[k])
       /\ ("store" \notin visited[k].raised /\ visited[k].scores # << >>) =>
            InResults(visited[k]) /\ InStore(visited[k])
  /\ [k \in 1..Len(visited) |-> visited[k].team]
       = SubSeq(teams_to_process, 1, Len(visited))
  /\ pc \in {"return", "done"} => Len(visited) = Len(teams_to_process)
  /\ db = db_before \o WrittenBy(visited)

C10_Witness ==
  /\ pc = "done"
  /\ Len(visited) = 2
  /\ "store" \in visited[1].raised
  /\ visited[2].outcome = "written"
  /\ visited[2].raised = {"fetch", "entities"}
  /\ Len(db) = 1

(***************************************************************************)
(* Backfill mode. The source at hand holds the current mode only (main.py  *)
(* imports random and never uses it; fetch_google_news keeps a days_back   *)
(* argument "for historical backfill"): the hourly replication below is    *)
(* taken from the description of the snapshot writer.                      *)
(***************************************************************************)
\* The averages computed for a club, in thousandths.
BaseAverages == {-50, 110}

\* The perturbation of an hourly copy, in thousandths: within 0.03 either way.
Perturbations == {-30, 30}

InitBackfill ==
  /\ pc = "backfill_club"
  /\ teams_to_process = <<1, 2>>
  /\ team_idx = 1
  /\ now \in [hour : 0..MaxHour, minute : {0, 25}]
  /\ base_avg = 0
  /\ hour_idx = 0
  /\ feeds = [google |-> << >>, bbc |-> << >>, sky |-> << >>]
  /\ posts = << >>
  /\ sentiments = << >>
  /\ sources_used = {}
  /\ db = << >>
  /\ results = << >>
  /\ returned = << >>
  /\ clock = 0
  /\ failed_calls = {}
  /\ nlp_calls = [sentiment |-> 0, entities |-> 0]
  /\ raised = {}
  /\ visited = << >>
  /\ google_posts = << >>
  /\ bbc_posts = << >>
  /\ sky_posts = << >>
  /\ fetch_ok = [s \in {"google", "bbc", "sky"} |-> TRUE]
  /\ runs_left = 0
  /\ db_before = << >>
  /\ filter_posts = << >>
  /\ relevant_posts = << >>
  /\ team_name = << >>
  /\ team_variations = << >>
  /\ response = << >>
  /\ entities = << >>

BackfillFrame ==
  UNCHANGED << filterVars, summaryVars, team_variations, feeds, teams_to_process,
               posts, sentiments, sources_used, returned, clock, failed_calls,
               nlp_calls, raised, visited, now, fetchVars, invocationVars >>

\* The club's articles are scored and averaged as in the current mode.
BackfillAggregate ==
  /\ pc = "backfill_club"
  /\ base_avg' \in BaseAverages
  /\ hour_idx' = 0
  /\ team_name' = CurrentTeam.name
  /\ pc' = "backfill_write"
  /\ UNCHANGED << team_idx, db, results >>
  /\ BackfillFrame

\* The club has no scored article: no snapshot.
BackfillNoData ==
  /\ pc = "backfill_club"
  /\ team_name' = CurrentTeam.name
  /\ team_idx' = team_idx + 1
  /\ pc' = IF team_idx + 1 > Len(teams_to_process) THEN "backfill_done"
           ELSE "backfill_club"
  /\ UNCHANGED << base_avg, hour_idx, db, results >>
  /\ BackfillFrame

\* A mutation of BackfillWriteHour: the copy is stamped with the minute of
\* the run.
BackfillWriteHourUntruncated ==
  /\ pc = "backfill_write"
  /\ hour_idx <= now.hour
  /\ \E p \in Perturbations :
       db' = Append(db, [team |-> team_name,
                         avg_sentiment |-> base_avg + p,
                         timestamp |-> [hour |-> hour_idx, minute |-> now.minute]])
  /\ hour_idx' = hour_idx + 1
  /\ UNCHANGED << pc, team_name, team_idx, base_avg, results >>
  /\ BackfillFrame

\* One hourly copy: the hour of the day hour_idx, from midnight to the
\* current hour, the average perturbed.
BackfillWriteHour ==
  /\ pc = "backfill_write"
  /\ hour_idx <= now.hour
  /\ \E p \in Perturbations :
       db' = Append(db, [team |-> team_name,
                         avg_sentiment |-> base_avg + p,
                         timestamp |-> [hour |-> hour_idx, minute |-> 0]])
  /\ hour_idx' = hour_idx + 1
  /\ UNCHANGED << pc, team_name, team_idx, base_avg, results >>
  /\ BackfillFrame

\* The copies of the club are written: the next club.
BackfillClubDone ==
  /\ pc = "backfill_write"
  /\ hour_idx > now.hour
  /\ results' = Append(results, [team |-> team_name, base |-> base_avg])
  /\ team_idx' = team_idx + 1
  /\ pc' = IF team_idx + 1 > Len(teams_to_process) THEN "backfill_done"
           ELSE "backfill_club"
  /\ UNCHANGED << team_name, base_avg, hour_idx, db >>
  /\ BackfillFrame

NextBackfill ==
  \/ BackfillAggregate
  \/ BackfillNoData
  \/ BackfillWriteHour
  \/ BackfillClubDone

SpecBackfill == InitBackfill /\ [][NextBackfill]_vars

RecordsOf(name) == SelectSeq(db, LAMBDA r : r.team = name)

\* C9: a backfill run at hour k of the day (hours 0 to k) leaves k + 1
\* snapshots for each processed club, one for each hour from midnight to the
\* current hour, each on the hour and each within 0.03 of the club's average.
C9_BackfillHourlyCopies ==
  pc = "backfill_done" =>
    \A c \in 1..Len(results) :
      LET rs == RecordsOf(results[c].team)
      IN  /\ Len(rs) = now.hour + 1
          /\ \A j \in 1..Len(rs) :
               /\ rs[j].timestamp = [hour |-> j - 1, minute |-> 0]
               /\ Abs(rs[j].avg_sentiment - results[c].base) <= 30

C9_Witness ==
  /\ pc = "backfill_done"
  /\ now = [hour |-> 3, minute |-> 25]
  /\ Len(results) = 2
  /\ Len(db) = 8
  /\ db[1].avg_sentiment # db[2].avg_sentiment

(***************************************************************************)
(* Properties of an invocation and of a sequence of invocations.           *)
(***************************************************************************)
\* C11: an invocation that has ended has returned the summary with status
\* 'success' and the code 200, whatever failed inside it.
C11_AlwaysReturnsSuccess ==
  Terminated =>
    /\ returned # << >>
    /\ returned[1].status = "success"
    /\ returned[2] = 200

\* C12: an invocation that has ended has reached the end of the loop, having
\* visited every club of teams_to_process once and in order, each club
\* ending written (one snapshot appended) or skipped (none appended).
C12_EveryClubVisitedOnceThenDone ==
  Terminated =>
    /\ pc = "done"
    /\ [k \in 1..Len(visited) |-> visited[k].team] = teams_to_process
    /\ \A k \in 1..Len(visited) :
         \/ visited[k].outcome = "written" /\ Len(visited[k].written) = 1
         \/ visited[k].outcome \in {"no_articles", "no_data", "error"}
              /\ visited[k].written = << >>
    /\ db = db_before \o WrittenBy(visited)

NoArticles(v) == v.outcome = "no_articles"

Listed(v) ==
  \E k \in 1..Len(returned[1].results) :
    returned[1].results[k].team = ClubName(v)

\* C14: a club for which the three sources yield no article has no snapshot
\* written in the run, is not listed in the returned results and is not
\* counted in teams_processed, which counts the clubs written.
C14_ClubWithoutArticlesNotCounted ==
  pc = "done" =>
    /\ \A k \in 1..Len(visited) :
         NoArticles(visited[k]) => ~InStore(visited[k]) /\ ~Listed(visited[k])
    /\ returned[1].teams_processed
         = Cardinality({k \in 1..Len(visited) : visited[k].outcome = "written"})

C14_Witness ==
  /\ pc = "done"
  /\ Len(visited) = 2
  /\ NoArticles(visited[1])
  /\ visited[2].outcome = "written"
  /\ returned[1].teams_processed = 1

IsPrefix(s, t) == Len(s) <= Len(t) /\ SubSeq(t, 1, Len(s)) = s

\* C15: over a sequence of invocations the store is append-only: no step
\* modifies or deletes a record written earlier, and an invocation that
\* returns has appended exactly one record for each club counted in its
\* teams_processed, whatever the store held before (no deduplication).
C15_StoreAppendOnly ==
  [][ /\ IsPrefix(db, db')
      /\ pc' = "done" =>
           /\ Len(db') = Len(db_before') + returned'[1].teams_processed
           /\ \A k \in 1..Len(results') :
                db'[Len(db_before') + k] = results'[k] ]_vars

C15_Witness ==
  /\ pc = "done"
  /\ db_before # << >>
  /\ returned[1].teams_processed = 2
  /\ Len(db) = 4
  /\ db[1].team = db[3].team
  /\ db[1].avg_sentiment = db[3].avg_sentiment
  /\ db[1].timestamp # db[3].timestamp

\* C16: for each club at most 7 sentiment calls are made, one for each
\* article among the first 7 with at least 30 characters, and at most 1
\* entity call, made only once an article of the club has been scored: at
\* most 8 calls.
C16_NlpCallsBounded ==
  /\ nlp_calls.sentiment <= 7
  /\ nlp_calls.entities <= 1
  /\ nlp_calls.sentiment + nlp_calls.entities <= 8
  /\ nlp_calls.entities = 1 => sentiments # << >>
  /\ pc = "store" =>
       nlp_calls.sentiment
         = Cardinality({k \in 1..Len(posts) : k <= 7 /\ Len(posts[k].text) >= 30})

C16_Witness ==
  /\ nlp_calls = [sentiment |-> 7, entities |-> 1]
  /\ Len(posts) > 7
  /\ Len(posts[8].text) >= 30
  /\ failed_calls # {}

GoogleNews == "Google News"

\* C18: when Google News returns at least 7 articles for a club, only Google
\* News articles are considered: no BBC Sport or Sky Sports article is
\* scored, also when Google articles are too short or fail scoring, and the
\* sources of the snapshot are 'Google News' alone.
C18_SevenGoogleArticlesShutOutSharedFeeds ==
  (pc \in {"store", "fetch", "return", "done"} /\ Len(google_posts) >= 7) =>
    /\ \A k \in SuccessfullyScored : posts[k].source = GoogleNews
    /\ sources_used \subseteq {GoogleNews}
    /\ JustWritten => Last(db).sources = {GoogleNews}

C18_Witness ==
  /\ JustWritten
  /\ Len(google_posts) = 7
  /\ Len(posts) > 7
  /\ posts[8].source # GoogleNews
  /\ failed_calls # {}
  /\ \E k \in 1..7 : Len(posts[k].text) < 30
  /\ Last(db).article_count = 5

(***************************************************************************)
(* fetch_combined_news as a function of the club, of what the three feeds  *)
(* hold and of the fetchers that raise.                                    *)
(***************************************************************************)
\* Manchester City and Liverpool
FetchTeams == {1, 3}

FetchGooglePool == {GooglePost(TextSquadNews), GooglePost(TextCityDraw)}
FetchBbcPool == {BbcPost(TextElectricity), BbcPost(TextRedsRally)}
FetchSkyPool == {SkyPost(TextCityDraw), SkyPost(TextTransfers)}

InitFetch ==
  /\ pc = "fetch_call"
  /\ \E t \in FetchTeams :
       /\ teams_to_process = <<t>>
       /\ team_name = PREMIER_LEAGUE_TEAMS[t].name
       /\ team_variations = PREMIER_LEAGUE_TEAMS[t].variations
  /\ team_idx = 1
  /\ \E g \in Lists(FetchGooglePool, MaxPosts),
        b \in Lists(FetchBbcPool, MaxPosts),
        s \in Lists(FetchSkyPool, MaxPosts) :
       feeds = [google |-> <<g>>, bbc |-> b, sky |-> s]
  /\ fetch_ok \in [Sources -> BOOLEAN]
  /\ posts = << >>
  /\ google_posts = << >>
  /\ bbc_posts = << >>
  /\ sky_posts = << >>
  /\ sentiments = << >>
  /\ sources_used = {}
  /\ db = << >>
  /\ results = << >>
  /\ returned = << >>
  /\ clock = 0
  /\ failed_calls = {}
  /\ nlp_calls = [sentiment |-> 0, entities |-> 0]
  /\ raised = {}
  /\ visited = << >>
  /\ runs_left = 0
  /\ db_before = << >>
  /\ filter_posts = << >>
  /\ relevant_posts = << >>
  /\ response = << >>
  /\ entities = << >>
  /\ BackfillIdle

\* all_posts = fetch_combined_news(team_name, team_variations)
FetchCombined ==
  /\ pc = "fetch_call"
  /\ posts' = FetchedPosts(fetch_ok)
  /\ FetcherResults(fetch_ok)
  /\ clock' = clock + 3
  /\ pc' = "fetch_return"
  /\ UNCHANGED << backfillVars, invocationVars, filterVars, summaryVars,
                  clubVars, feeds, teams_to_process, team_idx, sentiments,
                  sources_used, db, results, returned, failed_calls,
                  nlp_calls, raised, visited >>

NextFetch == FetchCombined

SpecFetch == InitFetch /\ [][NextFetch]_vars

SourceLabel(s) ==
  CASE s = "google" -> "Google News"
    [] s = "bbc" -> "BBC Sport"
    [] s = "sky" -> "Sky Sports"

FetcherResult(s) ==
  CASE s = "google" -> google_posts
    [] s = "bbc" -> bbc_posts
    [] s = "sky" -> sky_posts

FromSource(post_list, s) ==
  SelectSeq(post_list, LAMBDA p : p.source = SourceLabel(s))

\* What a source that does not fail contributes for the club: the Google
\* feed of the club as it is, the attributed articles of a shared feed.
Contribution(s) ==
  CASE s = "google" -> feeds.google[team_idx]
    [] s = "bbc" -> SelectSeq(feeds.bbc, IsAttributedPost)
    [] s = "sky" -> SelectSeq(feeds.sky, IsAttributedPost)

\* C13: a fetcher whose retrieval or parsing fails returns the empty list,
\* and fetch_combined_news returns; a failed or empty source contributes no
\* article and the articles of the other sources are returned all the same.
C13_FailedSourceContributesNothing ==
  pc = "fetch_return" =>
    \A s \in Sources :
      /\ ~fetch_ok[s] => FetcherResult(s) = << >>
      /\ (~fetch_ok[s] \/ FetcherResult(s) = << >>) => FromSource(posts, s) = << >>
      /\ fetch_ok[s] => FromSource(posts, s) = Contribution(s)

C13_Witness ==
  /\ pc = "fetch_return"
  /\ team_name = PREMIER_LEAGUE_TEAMS[3].name
  /\ ~fetch_ok["bbc"]
  /\ \E k \in 1..Len(feeds.bbc) : IsAttributedPost(feeds.bbc[k])
  /\ fetch_ok["google"] /\ fetch_ok["sky"]
  /\ feeds.sky = << >>
  /\ Len(posts) = 2

\* C17: the list returned is the Google News articles as fetched, unfiltered,
\* then the BBC Sport articles that pass the attribution filter for the
\* club's variations, then the Sky Sports articles that pass it, none of
\* them left out.
C17_GoogleUnfilteredThenFilteredSharedFeeds ==
  pc = "fetch_return" =>
    posts = google_posts
              \o SelectSeq(bbc_posts, IsAttributedPost)
              \o SelectSeq(sky_posts, IsAttributedPost)

C17_Witness ==
  /\ pc = "fetch_return"
  /\ team_name = PREMIER_LEAGUE_TEAMS[1].name
  /\ Len(google_posts) = 2
  /\ ~IsAttributedPost(google_posts[1])
  /\ Len(bbc_posts) = 2
  /\ Len(SelectSeq(bbc_posts, IsAttributedPost)) = 1
  /\ Len(sky_posts) = 2
  /\ Len(SelectSeq(sky_posts, IsAttributedPost)) = 1
  /\ Len(posts) = 4
====
